---------------------------- MODULE Spec2Model ----------------------------
(***************************************************************************)
(* Weighted MinHash (datasketch/weighted_minhash.py).                      *)
(*                                                                         *)
(* WeightedMinHashGenerator draws three parameter matrices from a seeded   *)
(* stream; minhash turns one weight vector into a WeightedMinHash (a seed  *)
(* and sample_size pairs (k, t)); minhash_many does the same for every row *)
(* of a matrix through a CSR representation; WeightedMinHash offers        *)
(* jaccard, digest, copy, __len__ and __eq__.                              *)
(*                                                                         *)
(* Numbers.  The code computes in float32.  Here a float is a record       *)
(* [nan, val]: val is a fixed-point integer and nan marks NaN, which       *)
(* compares unequal to everything and is skipped by nanargmin.  Weights    *)
(* are non-negative integers ("integer frequency", line 114).  Parameter   *)
(* values and logarithms are in units of 1/Q, products in units of 1/Q^2.  *)
(* Arithmetic on these is exact, so rounding differences between two float *)
(* expressions that are equal over the reals are not represented.          *)
(*                                                                         *)
(* Indices are 0-based as in the code: an array of length n is a function  *)
(* on 0..n-1.                                                              *)
(***************************************************************************)
EXTENDS Integers, Sequences, FiniteSets, TLC

VARIABLES
    gen,        \* the WeightedMinHashGenerator, or the outcome of its construction
    v,          \* the caller's input container for minhash: its kind and cells
    vbefore,    \* contents of the caller's container when the last minhash call began
    out,        \* what the last minhash call returned or raised
    prev,       \* what the minhash call before it returned or raised
    ncalls,     \* number of minhash calls made on the container
    X,          \* the caller's input matrix for minhash_many
    many,       \* what minhash_many returned or raised
    sk,         \* WeightedMinHash objects: seed and the id of the hashvalues array
    arrays,     \* the heap of hashvalues arrays: id -> contents
    held,       \* ids of arrays the caller got from digest() or from a copy()
    orig,       \* contents of the first sketch's hashvalues when it was constructed
    jres        \* what the last jaccard call returned or raised

vars == <<gen, v, vbefore, out, prev, ncalls, X, many, sk, arrays, held, orig, jres>>

-----------------------------------------------------------------------------
(* Bounds of the model *)

MaxDim == 2
MaxSample == 2
MaxSeed == 1
MaxW == 2
MaxCalls == 2
MaxRows == 2
MaxLen == 2
MaxSketches == 2
MaxArrays == 3

-----------------------------------------------------------------------------
(* Floats *)

\* Fixed-point scale: parameter values and logarithms are multiples of 1/Q.
Q == 4

F(x) == [nan |-> FALSE, val |-> x]
NaN == [nan |-> TRUE, val |-> 0]

\* An array of length n with cells from S.
Arr(n, S) == [0 .. n - 1 -> S]
len(a) == Cardinality(DOMAIN a)

\* np.log of a positive weight, in units of 1/Q (rounded to the nearest unit).
LnTable == <<0, 3, 4, 6, 6, 7, 8, 8>>
LnQ(w) == LnTable[w]

None == [tag |-> "none"]
Raise(exc, msg) == [tag |-> "raise", exc |-> exc, msg |-> msg]

-----------------------------------------------------------------------------
(* WeightedMinHashGenerator.__init__ *)

\* np.random.RandomState(seed): the n-th raw draw of the stream, a value in 0..3.
\* The stream is a deterministic function of the seed alone.
RECURSIVE StreamState(_, _)
StreamState(seed, n) ==
    IF n = 0 THEN (5 * seed + 3) % 16
    ELSE (5 * StreamState(seed, n - 1) + 3) % 16
Stream(seed, n) == StreamState(seed, n) \div 4

\* A Gamma(2, 1) draw: a positive value, in units of 1/Q.
GammaVals == <<2, 4, 6, 8>>
\* np.log of the Gamma(2, 1) draw with the same raw value, in units of 1/Q.
LnGammaVals == <<-3, 0, 2, 3>>
\* A uniform [0, 1) draw, in units of 1/Q.
UniformVals == <<0, 1, 2, 3>>

\* generator.<dist>(..., (sample_size, dim)): sample_size * dim draws in
\* row-major order starting at draw number base.
Draws(seed, base, sample_size, dim, vals) ==
    [i \in 0 .. sample_size - 1 |->
        [j \in 0 .. dim - 1 |-> vals[Stream(seed, base + i * dim + j) + 1]]]

\* Lines 104-110.  numpy rejects a negative entry of the shape (line 108);
\* nothing else is checked, so a dimension or sample size of 0 is accepted.
NewGenerator(dim, sample_size, seed) ==
    IF dim < 0 \/ sample_size < 0
    THEN Raise("ValueError", "negative dimensions are not allowed")
    ELSE [tag |-> "generator",
          dim |-> dim, sample_size |-> sample_size, seed |-> seed,
          rs |-> Draws(seed, 0, sample_size, dim, GammaVals),
          ln_cs |-> Draws(seed, sample_size * dim, sample_size, dim, LnGammaVals),
          betas |-> Draws(seed, 2 * sample_size * dim, sample_size, dim, UniformVals)]

-----------------------------------------------------------------------------
(* WeightedMinHashGenerator.minhash *)

\* Kinds of value a caller passes as v.
Kinds == {"noniterable", "list", "ndarray_int", "ndarray_float32"}

\* Line 130: v == 0, element-wise.  NaN == 0 is false.
vzeros(w) == [j \in DOMAIN w |-> ~w[j].nan /\ w[j].val = 0]

\* Line 133: v[vzeros] = np.nan.
Substitute(w) == [j \in DOMAIN w |-> IF vzeros(w)[j] THEN NaN ELSE w[j]]

\* Line 134: np.log(v), element-wise; the logarithm of NaN is NaN.
vlog(w) == [j \in DOMAIN w |-> IF w[j].nan THEN NaN ELSE F(LnQ(w[j].val))]

\* Line 136: t = floor(vlog / rs[i] + betas[i]).
t_row(g, i, lg) ==
    [j \in DOMAIN lg |->
        IF lg[j].nan THEN NaN
        ELSE F((lg[j].val * Q + g.betas[i][j] * g.rs[i][j]) \div (g.rs[i][j] * Q))]

\* Lines 137-138: ln_y = (t - betas[i]) * rs[i]; ln_a = ln_cs[i] - ln_y - rs[i],
\* in units of 1/Q^2.
ln_a_row(g, i, t) ==
    [j \in DOMAIN t |->
        IF t[j].nan THEN NaN
        ELSE F(g.ln_cs[i][j] * Q
                - (t[j].val * Q - g.betas[i][j]) * g.rs[i][j]
                - g.rs[i][j] * Q)]

\* np.argmin: the first index of a NaN if there is one, else the first index
\* of the minimum.
argmin(a) ==
    IF \E j \in DOMAIN a : a[j].nan
    THEN CHOOSE j \in DOMAIN a : a[j].nan /\ \A h \in DOMAIN a : h < j => ~a[h].nan
    ELSE CHOOSE j \in DOMAIN a :
            /\ \A h \in DOMAIN a : a[j].val <= a[h].val
            /\ \A h \in DOMAIN a : h < j => a[h].val > a[j].val

\* np.argmin used where np.nanargmin is meant: a NaN cell is selected.
nanargmin_plain(a) == argmin(a)

\* Line 139: np.nanargmin: the first index of the minimum over the cells that
\* are not NaN.
nanargmin(a) ==
    CHOOSE j \in DOMAIN a :
        /\ ~a[j].nan
        /\ \A h \in DOMAIN a : ~a[h].nan => a[j].val <= a[h].val
        /\ \A h \in DOMAIN a : (h < j /\ ~a[h].nan) => a[h].val > a[j].val

\* Lines 135-140: one sample row: k and int(t[k]).
hash_row(g, i, lg) ==
    LET t == t_row(g, i, lg)
        k == nanargmin(ln_a_row(g, i, t))
    IN  <<k, t[k].val>>

WeightedMinHash(seed, hashvalues) ==
    [tag |-> "sketch", seed |-> seed, hashvalues |-> hashvalues]

\* Lines 125-128: the array minhash works on is the caller's own array when
\* that is already an ndarray of dtype float32, and a fresh array otherwise.
Aliased(kind) == kind = "ndarray_float32"

\* minhash(v) for a container of the given kind and cells: what the call
\* returns or raises (ret) and the contents of the caller's container
\* afterwards (cells).
minhash(g, kind, cells) ==
    IF kind = "noniterable"
    THEN [ret |-> Raise("TypeError", "Input vector must be an iterable"),
          cells |-> cells]
    ELSE IF len(cells) # g.dim
    THEN [ret |-> Raise("ValueError", "Input dimension mismatch"), cells |-> cells]
    ELSE IF \A j \in DOMAIN cells : vzeros(cells)[j]
    THEN [ret |-> Raise("ValueError", "Input is all zeros"), cells |-> cells]
    ELSE LET w == Substitute(cells)
             lg == vlog(w)
         IN  [ret |-> IF g.sample_size > 0 /\ \A j \in DOMAIN w : w[j].nan
                      THEN Raise("ValueError", "All-NaN slice encountered")
                      ELSE WeightedMinHash(g.seed,
                              [i \in 0 .. g.sample_size - 1 |-> hash_row(g, i, lg)]),
              cells |-> IF Aliased(kind) THEN w ELSE cells]

-----------------------------------------------------------------------------
(* WeightedMinHashGenerator.minhash_many *)

\* A value a caller passes as X.  Its kind is "csr" for a scipy sparse matrix,
\* "ndarray" for a dense 2-D array, "ndarray1d" for an array that is not 2-D
\* and "list" for anything else.  It has nrows x ncols weights w; stored tells,
\* for a sparse matrix, which cells the input stores an entry for (a stored
\* entry may hold zero).
Matrix(kind, nrows, ncols, w, stored) ==
    [tag |-> "matrix", kind |-> kind, nrows |-> nrows, ncols |-> ncols,
     w |-> w, stored |-> stored]

\* Lines 171-172: sp.sparse.csr_matrix(X, dtype=np.float32, copy=True) and
\* sort_indices().  A dense input keeps its nonzero cells; a sparse input
\* keeps every stored entry, explicit zeros included.  The result is the set
\* of stored coordinates; within a row the entries are in column order.
csr_stored(M) ==
    {rc \in (0 .. M.nrows - 1) \X (0 .. M.ncols - 1) :
        IF M.kind = "csr" THEN M.stored[rc[1]][rc[2]] ELSE M.w[rc[1]][rc[2]] # 0}

\* X.indptr: indptr[r] is the number of stored entries in the rows before r.
indptr(M) ==
    [r \in 0 .. M.nrows |-> Cardinality({rc \in csr_stored(M) : rc[1] < r})]

\* X.nnz: the number of stored entries.
nnz(M) == Cardinality(csr_stored(M))

\* Row-major order of coordinates.
Before(a, b) == a[1] < b[1] \/ (a[1] = b[1] /\ a[2] < b[2])

\* Line 179: X.nonzero(): the coordinates of the stored entries whose value
\* is not zero, in row-major order, as an array of <<row, column>>.
nonzero(M) ==
    LET nz == {rc \in csr_stored(M) : M.w[rc[1]][rc[2]] # 0}
    IN  [q \in 0 .. Cardinality(nz) - 1 |->
            CHOOSE rc \in nz : Cardinality({o \in nz : Before(o, rc)}) = q]
ridx(M) == [q \in DOMAIN nonzero(M) |-> nonzero(M)[q][1]]
cidx(M) == [q \in DOMAIN nonzero(M) |-> nonzero(M)[q][2]]

\* Lines 180-182: rowends = indptr.tolist(); pop(0); append(nnz).
rowends(M) ==
    [r \in 0 .. M.nrows |-> IF r < M.nrows THEN indptr(M)[r + 1] ELSE nnz(M)]

\* Lines 184, 202, 217: the range [doc_begin, doc_end) of row it_doc.
doc_begin(M, it_doc) == IF it_doc = 0 THEN 0 ELSE rowends(M)[it_doc - 1]
doc_end(M, it_doc) == rowends(M)[it_doc]

\* Lines 205-206: the positions a Python slice [doc_begin:doc_end] selects
\* from an array of length n.
Slice(b, e, n) == {q \in 0 .. n - 1 : b <= q /\ q < e}

\* Line 191: np.log(X[ridx, cidx]), one value per gathered entry.
log_data(M) ==
    [q \in DOMAIN nonzero(M) |-> F(LnQ(M.w[ridx(M)[q]][cidx(M)[q]]))]

\* Lines 187-188, 195: t = floor(log_data / rs_cidx + betas_cidx), sample i.
t_many(g, M, i) ==
    [q \in DOMAIN nonzero(M) |->
        LET j == cidx(M)[q]
        IN  F((log_data(M)[q].val * Q + g.betas[i][j] * g.rs[i][j])
                \div (g.rs[i][j] * Q))]

\* Lines 189, 196-197: ln_y = (t - betas_cidx + 1) * rs_cidx;
\* ln_a = ln_cs_cidx - ln_y, sample i, in units of 1/Q^2.
ln_a_many(g, M, i) ==
    [q \in DOMAIN nonzero(M) |->
        LET j == cidx(M)[q]
        IN  F(g.ln_cs[i][j] * Q
                - (t_many(g, M, i)[q].val * Q - g.betas[i][j] + Q) * g.rs[i][j])]

\* Lines 205-215: the hashvalues of row it_doc, for a nonempty slice sl of
\* gathered positions.  doc_argmin is relative to doc_begin.
doc_hashvalues(g, M, sl) ==
    [i \in 0 .. g.sample_size - 1 |->
        LET doc_ln_a == [q \in sl |-> ln_a_many(g, M, i)[q]]
            p == argmin(doc_ln_a)
        IN  <<cidx(M)[p], t_many(g, M, i)[p].val>>]

\* The rows whose slice is asked for (doc_begin != doc_end) and is empty:
\* np.argmin raises on an empty sequence (line 208).
EmptySliceRows(M) ==
    {r \in 0 .. M.nrows - 1 :
        /\ doc_begin(M, r) # doc_end(M, r)
        /\ Slice(doc_begin(M, r), doc_end(M, r), len(nonzero(M))) = {}}

\* minhash_many(X): what the call returns or raises.
minhash_many(g, M) ==
    IF M.kind = "list"
    THEN Raise("TypeError", "Input X must be a sparse matrix or numpy matrix")
    ELSE IF M.kind = "ndarray1d"
    THEN Raise("ValueError", "Input must have two dimensions")
    ELSE IF M.ncols # g.dim
    THEN Raise("ValueError", "Input dimension mismatch")
    ELSE IF g.sample_size = 0
    THEN Raise("ValueError", "need at least one array to concatenate")
    ELSE IF EmptySliceRows(M) # {}
    THEN Raise("ValueError", "attempt to get argmin of an empty sequence")
    ELSE [tag |-> "list",
          items |-> [r \in 0 .. M.nrows - 1 |->
              IF doc_begin(M, r) # doc_end(M, r)
              THEN WeightedMinHash(g.seed,
                      doc_hashvalues(g, M,
                          Slice(doc_begin(M, r), doc_end(M, r), len(nonzero(M)))))
              ELSE None]]

-----------------------------------------------------------------------------
(* WeightedMinHash *)

\* __len__ (lines 69-74).
sketch_len(hv) == len(hv)

\* np.array_equal on two arrays of pairs.
array_equal(a, b) == a = b

\* jaccard without the comparison of the seeds.
jaccard_noseed(seed1, hv1, seed2, hv2) ==
    IF sketch_len(hv1) # sketch_len(hv2)
    THEN Raise("ValueError", "different numbers of hash values")
    ELSE IF sketch_len(hv1) = 0
    THEN Raise("ZeroDivisionError", "float division by zero")
    ELSE [tag |-> "value",
          num |-> Cardinality({i \in DOMAIN hv1 : array_equal(hv1[i], hv2[i])}),
          den |-> sketch_len(hv1)]

\* jaccard (lines 39-50) on seeds and hashvalues contents.
jaccard(seed1, hv1, seed2, hv2) ==
    IF seed2 # seed1
    THEN Raise("ValueError", "different seeds")
    ELSE IF sketch_len(hv1) # sketch_len(hv2)
    THEN Raise("ValueError", "different numbers of hash values")
    ELSE LET intersection ==
                 Cardinality({i \in DOMAIN hv1 : array_equal(hv1[i], hv2[i])})
         IN  IF sketch_len(hv1) = 0
             THEN Raise("ZeroDivisionError", "float division by zero")
             ELSE [tag |-> "value", num |-> intersection, den |-> sketch_len(hv1)]

\* __eq__ (lines 76-84) on two sketches.
sketch_eq(seed1, hv1, seed2, hv2) == seed1 = seed2 /\ array_equal(hv1, hv2)

\* digest returning self.hashvalues itself instead of a copy of it.
digest_shared(heap, hv) == [heap |-> heap, id |-> hv]

\* digest (lines 52-59): copy.copy of an ndarray is a new array with the same
\* contents.  Given the heap and the id of self.hashvalues: the heap after the
\* call and the id of the array returned.
digest(heap, hv) == [heap |-> Append(heap, heap[hv]), id |-> Len(heap) + 1]

-----------------------------------------------------------------------------
(* The caller: state and steps *)

Weights == {F(w) : w \in 0 .. MaxW}

\* The pairs (k, t) of the sketches a caller constructs, the pair a caller
\* writes over an entry of an array it holds, and the seeds of the sketches.
PairVals == {<<0, 0>>, <<0, 1>>}
Altered == <<1, 1>>
SketchSeeds == {0, 1}

Init ==
    /\ gen = None
    /\ v = None
    /\ vbefore = None
    /\ out = None
    /\ prev = None
    /\ ncalls = 0
    /\ X = None
    /\ many = None
    /\ sk = << >>
    /\ arrays = << >>
    /\ held = {}
    /\ orig = << >>
    /\ jres = None

\* gen = WeightedMinHashGenerator(dim, sample_size, seed)
Construct(dim, sample_size, seed) ==
    /\ gen = None
    /\ gen' = NewGenerator(dim, sample_size, seed)
    /\ UNCHANGED <<v, vbefore, out, prev, ncalls, X, many, sk, arrays, held, orig, jres>>

\* The caller makes the container it will pass to minhash.
NewInput(kind, cells) ==
    /\ gen.tag = "generator"
    /\ v = None
    /\ v' = [tag |-> "container", kind |-> kind, cells |-> cells]
    /\ UNCHANGED <<gen, vbefore, out, prev, ncalls, X, many, sk, arrays, held, orig, jres>>

\* gen.minhash(v), on the same container as any earlier call.
CallMinhash ==
    /\ gen.tag = "generator"
    /\ v.tag = "container"
    /\ ncalls < MaxCalls
    /\ LET r == minhash(gen, v.kind, v.cells)
       IN  /\ out' = r.ret
           /\ v' = [v EXCEPT !.cells = r.cells]
    /\ vbefore' = [tag |-> "cells", cells |-> v.cells]
    /\ prev' = out
    /\ ncalls' = ncalls + 1
    /\ UNCHANGED <<gen, X, many, sk, arrays, held, orig, jres>>

\* The caller makes the matrix it will pass to minhash_many.
NewMatrix(M) ==
    /\ gen.tag = "generator"
    /\ X = None
    /\ X' = M
    /\ UNCHANGED <<gen, v, vbefore, out, prev, ncalls, many, sk, arrays, held, orig, jres>>

\* gen.minhash_many(X)
CallMinhashMany ==
    /\ gen.tag = "generator"
    /\ X.tag = "matrix"
    /\ many = None
    /\ many' = minhash_many(gen, X)
    /\ UNCHANGED <<gen, v, vbefore, out, prev, ncalls, X, sk, arrays, held, orig, jres>>

\* WeightedMinHash(seed, hashvalues) with a fresh array (lines 23-25).
NewSketch(seed, hv) ==
    /\ Len(sk) < MaxSketches
    /\ Len(arrays) < MaxArrays
    /\ arrays' = Append(arrays, hv)
    /\ sk' = Append(sk, [seed |-> seed, hashvalues |-> Len(arrays) + 1])
    /\ orig' = Append(orig, [own |-> TRUE, hashvalues |-> hv])
    /\ UNCHANGED <<gen, v, vbefore, out, prev, ncalls, X, many, held, jres>>

\* a = sk[s].digest(); the caller keeps a.
Digest(s) ==
    /\ Len(arrays) < MaxArrays
    /\ arrays' = digest(arrays, sk[s].hashvalues).heap
    /\ held' = held \cup {digest(arrays, sk[s].hashvalues).id}
    /\ UNCHANGED <<gen, v, vbefore, out, prev, ncalls, X, many, sk, orig, jres>>

\* c = sk[s].copy() (lines 61-67); the caller may write to c.hashvalues.
Copy(s) ==
    /\ Len(arrays) < MaxArrays
    /\ Len(sk) < MaxSketches
    /\ arrays' = digest(arrays, sk[s].hashvalues).heap
    /\ sk' = Append(sk, [seed |-> sk[s].seed,
                         hashvalues |-> digest(arrays, sk[s].hashvalues).id])
    /\ orig' = Append(orig, [own |-> FALSE, hashvalues |-> arrays[sk[s].hashvalues]])
    /\ held' = held \cup {digest(arrays, sk[s].hashvalues).id}
    /\ UNCHANGED <<gen, v, vbefore, out, prev, ncalls, X, many, jres>>

\* a[i] = altered-value, on an array a the caller holds.
Write(a, i) ==
    /\ a \in held
    /\ i \in DOMAIN arrays[a]
    /\ arrays[a][i] # Altered
    /\ arrays' = [arrays EXCEPT ![a][i] = Altered]
    /\ UNCHANGED <<gen, v, vbefore, out, prev, ncalls, X, many, sk, held, orig, jres>>

\* sk[s1].jaccard(sk[s2])
Jaccard(s1, s2) ==
    /\ jres' = [tag |-> "jaccard", self |-> s1, other |-> s2,
                ret |-> jaccard(sk[s1].seed, arrays[sk[s1].hashvalues],
                                sk[s2].seed, arrays[sk[s2].hashvalues]),
                before |-> arrays]
    /\ UNCHANGED <<gen, v, vbefore, out, prev, ncalls, X, many, sk, arrays, held, orig>>

\* The containers a caller can pass to minhash.
Inputs ==
    {<<"noniterable", << >>>>}
    \cup {<<k, c>> : k \in Kinds \ {"noniterable"},
                     c \in UNION {Arr(n, Weights) : n \in 0 .. MaxDim}}

\* The nr x nc matrices a caller can pass to minhash_many.  A cell of a dense
\* array is a weight.  A cell of a sparse matrix is a weight, stored when it
\* is not zero, or -1 for a stored entry whose value is zero.
Matrices(nr, nc) ==
    {Matrix("ndarray", nr, nc, w, [r \in 0 .. nr - 1 |-> [c \in 0 .. nc - 1 |-> FALSE]])
        : w \in Arr(nr, Arr(nc, 0 .. MaxW))}
    \cup
    {Matrix("csr", nr, nc,
            [r \in 0 .. nr - 1 |-> [c \in 0 .. nc - 1 |-> IF e[r][c] = -1 THEN 0 ELSE e[r][c]]],
            [r \in 0 .. nr - 1 |-> [c \in 0 .. nc - 1 |-> e[r][c] # 0]])
        : e \in Arr(nr, Arr(nc, -1 .. MaxW))}

\* What a caller passes that is no 2-D array or sparse matrix.
NonMatrices ==
    {Matrix("list", 0, 0, << >>, << >>), Matrix("ndarray1d", 0, 0, << >>, << >>)}

ConstructStep ==
    /\ gen = None
    /\ \E dim \in -1 .. MaxDim : \E sample_size \in -1 .. MaxSample : \E seed \in 0 .. MaxSeed :
        Construct(dim, sample_size, seed)

NewSketchStep ==
    \E seed \in SketchSeeds : \E n \in 0 .. MaxLen : \E hv \in Arr(n, PairVals) :
        NewSketch(seed, hv)

\* One generator, one container, minhash called on it repeatedly.
NextV ==
    \/ ConstructStep
    \/ (v = None /\ gen.tag = "generator" /\ \E i \in Inputs : NewInput(i[1], i[2]))
    \/ CallMinhash

SpecV == Init /\ [][NextV]_vars

\* One generator, one matrix, minhash_many called on it.
NextM ==
    \/ ConstructStep
    \/ /\ X = None /\ gen.tag = "generator"
       /\ \/ \E M \in NonMatrices : NewMatrix(M)
          \/ \E nr \in 0 .. MaxRows : \E nc \in 0 .. MaxDim :
                 \E M \in Matrices(nr, nc) : NewMatrix(M)
    \/ CallMinhashMany

SpecM == Init /\ [][NextM]_vars

\* Sketches compared with jaccard.
NextJ ==
    \/ NewSketchStep
    \/ \E s1 \in DOMAIN sk : \E s2 \in DOMAIN sk : Jaccard(s1, s2)

SpecJ == Init /\ [][NextJ]_vars

\* One constructed sketch; it and its copies are exported with digest and
\* copy, and the caller alters the exported arrays.
NextH ==
    \/ (sk = << >> /\ NewSketchStep)
    \/ \E s \in DOMAIN sk : Digest(s)
    \/ \E s \in DOMAIN sk : Copy(s)
    \/ \E a \in held : \E i \in DOMAIN arrays[a] : Write(a, i)

SpecH == Init /\ [][NextH]_vars

-----------------------------------------------------------------------------
(* Properties of construction and of minhash, checked under SpecV *)

\* C7: a generator exists only if it was constructed with dim > 0 and
\* sample_size > 0; construction with dim <= 0 or sample_size <= 0 fails.
C7_ConstructRejectsNonPositive ==
    gen.tag = "generator" => gen.dim > 0 /\ gen.sample_size > 0

\* The generator was constructed with the arguments the specification allows.
ValidGen == gen.tag = "generator" /\ gen.dim > 0 /\ gen.sample_size > 0

\* C2: after a call of minhash on a generator with dim > 0 and sample_size > 0,
\* whether it returned or raised, the caller's container holds what it held
\* when the call began.
C2_InputNotMutated ==
    (ValidGen /\ ncalls > 0) => v.cells = vbefore.cells

\* The similarity jaccard reports is exactly 1.0.
IsOne(r) == r.tag = "value" /\ r.num = r.den

\* C8: when minhash has been called twice on the same container and the first
\* call returned a sketch, the second returned a sketch equal to it, and their
\* jaccard similarity is exactly 1.0.
C8_SecondCallSameSketch ==
    (ncalls >= 2 /\ prev.tag = "sketch") =>
        /\ out.tag = "sketch"
        /\ sketch_eq(prev.seed, prev.hashvalues, out.seed, out.hashvalues)
        /\ IsOne(jaccard(prev.seed, prev.hashvalues, out.seed, out.hashvalues))

\* The same for generators with at least one sample: the second call on the
\* container, NaN cells included, repeats the first.
SecondCallSameSketchPositiveSampleSize ==
    (ncalls >= 2 /\ prev.tag = "sketch" /\ gen.sample_size > 0) =>
        /\ out.tag = "sketch"
        /\ sketch_eq(prev.seed, prev.hashvalues, out.seed, out.hashvalues)
        /\ IsOne(jaccard(prev.seed, prev.hashvalues, out.seed, out.hashvalues))

\* The dimensions of the vector the last call was given whose weight is > 0.
Positive(w) == {j \in DOMAIN w : ~w[j].nan /\ w[j].val > 0}

\* C9: in the sketch minhash returns, for every sample row i the recorded k is
\* the lowest index among the dimensions with v[j] > 0 that minimises ln_a_j
\* for row i, the recorded t is t_k, k is not a dimension of weight zero, and
\* 0 <= k < dim.
C9_ArgminOverPositive ==
    (ncalls > 0 /\ out.tag = "sketch") =>
        LET w == vbefore.cells
            pos == Positive(w)
        IN  \A i \in 0 .. gen.sample_size - 1 :
                LET t == t_row(gen, i, vlog(w))
                    ln_a == ln_a_row(gen, i, t)
                    k == out.hashvalues[i][1]
                IN  /\ k \in pos
                    /\ 0 <= k /\ k < gen.dim
                    /\ \A j \in pos : ln_a[k].val <= ln_a[j].val
                    /\ \A j \in pos : j < k => ln_a[j].val > ln_a[k].val
                    /\ out.hashvalues[i][2] = t[k].val

\* C9's case: minhash returned a sketch for a vector with a zero weight at a
\* lower index than a recorded k.
C9_Witness ==
    /\ ncalls > 0 /\ out.tag = "sketch"
    /\ \E i \in 0 .. gen.sample_size - 1 :
           \E j \in DOMAIN vbefore.cells :
               /\ j < out.hashvalues[i][1]
               /\ vbefore.cells[j] = F(0)

\* Two positive dimensions tie on the minimal ln_a of some sample row.
TieReached ==
    /\ ncalls > 0 /\ out.tag = "sketch"
    /\ \E i \in 0 .. gen.sample_size - 1 :
           LET ln_a == ln_a_row(gen, i, t_row(gen, i, vlog(vbefore.cells)))
               k == out.hashvalues[i][1]
           IN  \E j \in Positive(vbefore.cells) : j # k /\ ln_a[j] = ln_a[k]

-----------------------------------------------------------------------------
(* Properties of minhash_many, checked under SpecM *)

\* The generator has dim > 0 and sample_size > 0, and X is a matrix
\* minhash_many accepts: dense or sparse, with dim columns.
Accepted ==
    /\ ValidGen
    /\ X.tag = "matrix" /\ X.kind \in {"ndarray", "csr"} /\ X.ncols = gen.dim

\* Row r of X as a vector, and whether it has a nonzero weight.
RowOf(r) == [j \in 0 .. X.ncols - 1 |-> F(X.w[r][j])]
HasNonzero(r) == \E j \in 0 .. X.ncols - 1 : X.w[r][j] # 0

\* C1: for every row r of an accepted X that has a nonzero weight, the sketch
\* at position r of minhash_many(X) equals the sketch minhash(X[r]) returns.
C1_BatchEqualsSingle ==
    (many # None /\ Accepted) =>
        \A r \in 0 .. X.nrows - 1 :
            HasNonzero(r) =>
                /\ many.tag = "list"
                /\ many.items[r] = minhash(gen, "list", RowOf(r)).ret

\* C3: for an all-zero row r of an accepted X, minhash on that row raises the
\* all-zero error, while minhash_many(X) returns one result per row, None at
\* position r and a sketch at every row with a nonzero weight.
C3_EmptyRowIsNone ==
    (many # None /\ Accepted) =>
        \A r \in 0 .. X.nrows - 1 :
            ~HasNonzero(r) =>
                /\ minhash(gen, "list", RowOf(r)).ret
                       = Raise("ValueError", "Input is all zeros")
                /\ many.tag = "list"
                /\ DOMAIN many.items = 0 .. X.nrows - 1
                /\ many.items[r] = None
                /\ \A o \in 0 .. X.nrows - 1 :
                       HasNonzero(o) => many.items[o].tag = "sketch"

\* The loop of lines 201-217 gets to row r: no earlier row raised.
LoopReaches(r) == \A o \in EmptySliceRows(X) : r <= o

\* C10: for every row r the loop gets to, the range [doc_begin, doc_end) holds
\* exactly the positions of the gathered (ridx, cidx) whose row index is r,
\* and is empty exactly when row r has no nonzero weight.
C10_RangeIsRowEntries ==
    (many # None /\ Accepted) =>
        \A r \in 0 .. X.nrows - 1 :
            LoopReaches(r) =>
                /\ {q \in DOMAIN nonzero(X) : ridx(X)[q] = r}
                       = {q \in 0 .. nnz(X) - 1 : doc_begin(X, r) <= q /\ q < doc_end(X, r)}
                /\ (doc_begin(X, r) = doc_end(X, r)) <=> ~HasNonzero(r)

\* The same for dense input: csr_matrix stores exactly the nonzero cells.
DenseRangeIsRowEntries ==
    (many # None /\ Accepted /\ X.kind = "ndarray") =>
        \A r \in 0 .. X.nrows - 1 :
            /\ {q \in DOMAIN nonzero(X) : ridx(X)[q] = r}
                   = {q \in DOMAIN nonzero(X) : doc_begin(X, r) <= q /\ q < doc_end(X, r)}
            /\ doc_end(X, r) <= len(nonzero(X))
            /\ (doc_begin(X, r) = doc_end(X, r)) <=> ~HasNonzero(r)

\* For dense input and a generator with at least one sample, the batch and
\* the single transform agree on every row with a nonzero weight.
DenseBatchEqualsSingle ==
    (many # None /\ Accepted /\ X.kind = "ndarray") =>
        /\ many.tag = "list"
        /\ \A r \in 0 .. X.nrows - 1 :
               many.items[r] = IF HasNonzero(r)
                               THEN minhash(gen, "list", RowOf(r)).ret
                               ELSE None

-----------------------------------------------------------------------------
(* Properties of WeightedMinHash.jaccard, checked under SpecJ *)

SelfSeed == sk[jres.self].seed
OtherSeed == sk[jres.other].seed
SelfHv == arrays[sk[jres.self].hashvalues]
OtherHv == arrays[sk[jres.other].hashvalues]

\* C4: jaccard raises ValueError whenever the seeds differ or the lengths
\* differ, returns a value only when both match, and leaves the hashvalues of
\* both sketches as they were.
C4_IncompatibleRejected ==
    jres.tag = "jaccard" =>
        /\ (SelfSeed # OtherSeed \/ len(SelfHv) # len(OtherHv))
               => (jres.ret.tag = "raise" /\ jres.ret.exc = "ValueError")
        /\ jres.ret.tag = "value"
               => (SelfSeed = OtherSeed /\ len(SelfHv) = len(OtherHv))
        /\ SelfHv = jres.before[sk[jres.self].hashvalues]
        /\ OtherHv = jres.before[sk[jres.other].hashvalues]

\* C4's case: jaccard was called on two sketches of equal length and different
\* seeds, and raised.
C4_Witness ==
    /\ jres.tag = "jaccard"
    /\ SelfSeed # OtherSeed
    /\ len(SelfHv) = len(OtherHv) /\ len(SelfHv) > 0
    /\ jres.ret.tag = "raise"

\* C5: for two sketches of equal seed and equal length jaccard returns the
\* number of positions with equal pairs divided by the length, a value in
\* [0, 1].
C5_ValueIsMatchFraction ==
    (jres.tag = "jaccard" /\ SelfSeed = OtherSeed /\ len(SelfHv) = len(OtherHv)) =>
        /\ jres.ret.tag = "value"
        /\ jres.ret.num = Cardinality({i \in DOMAIN SelfHv : SelfHv[i] = OtherHv[i]})
        /\ jres.ret.den = len(SelfHv)
        /\ 0 <= jres.ret.num /\ jres.ret.num <= jres.ret.den

\* The same for sketches with at least one hash value.
NonemptyValueIsMatchFraction ==
    (jres.tag = "jaccard" /\ SelfSeed = OtherSeed /\ len(SelfHv) = len(OtherHv)
        /\ len(SelfHv) > 0) =>
        /\ jres.ret.tag = "value"
        /\ jres.ret.num = Cardinality({i \in DOMAIN SelfHv : SelfHv[i] = OtherHv[i]})
        /\ jres.ret.den = len(SelfHv)
        /\ 0 <= jres.ret.num /\ jres.ret.num <= jres.ret.den

-----------------------------------------------------------------------------
(* Properties of digest and copy, checked under SpecH *)

\* C6: whatever the caller writes into arrays returned by digest() or into the
\* hashvalues of copies, the sketch the caller constructed keeps the hashvalues
\* it was constructed with.
C6_ExportsAreIndependent ==
    \A s \in DOMAIN sk :
        orig[s].own => arrays[sk[s].hashvalues] = orig[s].hashvalues

\* C6's case: one constructed sketch; a copy of it whose hashvalues the caller
\* has altered, and an array from digest() the caller has altered.
C6_Witness ==
    /\ Len(sk) = 2 /\ orig[1].own /\ ~orig[2].own
    /\ arrays[sk[2].hashvalues] # orig[1].hashvalues
    /\ \E a \in held :
           /\ a # sk[2].hashvalues
           /\ arrays[a] # orig[1].hashvalues

=============================================================================
